---- MODULE Spec2Model ----
(***************************************************************************)
(* timerun: ElapsedTime, ElapsedTimeMeasurer and ElapsedTimeCatcher.       *)
(*                                                                         *)
(* One ElapsedTimeCatcher is constructed with the arguments max_storage    *)
(* and durations and is then used as a context manager and as a decorator  *)
(* of two functions.  Python lists are objects on a heap, so that the      *)
(* identity of the list behind ``catcher.durations`` is part of the state. *)
(*                                                                         *)
(* Spec is the catcher in use.  SpecMeasurer is an ElapsedTimeMeasurer     *)
(* called directly, reading one of two counters.  SpecTime applies the     *)
(* comparisons and the string rendering of ElapsedTime to given values.    *)
(***************************************************************************)
EXTENDS Integers, Sequences, FiniteSets, TLC

\* ------------------------------------------------------------------------
\* Bounds of the model
\* ------------------------------------------------------------------------
MaxClock == 2
MaxUses == 3
MaxDepth == 2
MaxStorage == 2
MaxSupplied == 1
MaxDays == 2

\* ------------------------------------------------------------------------
\* Python values
\* ------------------------------------------------------------------------
\* Optional[T]: None, or a value v held as Some(v)
None == <<>>
Some(v) == <<v>>
Get(o) == o[1]

\* min(a, b)
Min(a, b) == IF a <= b THEN a ELSE b

\* @dataclass ElapsedTime: one field, nanoseconds
ElapsedTime(n) == [nanoseconds |-> n]

\* list[:-1], the newest entry dropped instead of the oldest
SliceFrom1_DropLast(l) == IF Len(l) <= 1 THEN <<>> ELSE SubSeq(l, 1, Len(l) - 1)

\* list[1:]
SliceFrom1(l) == IF Len(l) <= 1 THEN <<>> ELSE SubSeq(l, 2, Len(l))

\* the two list objects that can be alive at once: the caller's and the
\* catcher's
ListIds == 1..2

\* the callables decorated by the catcher
Functions == {"f", "g"}

\* the contents of a list the caller passes as ``durations``
SuppliedList(n) == [i \in 1..n |-> ElapsedTime(100 + i)]

VARIABLES
    clock,          \* last value returned by the measurer's counter
    _start,         \* ElapsedTimeMeasurer._start: None until launch()
    _max_storage,   \* ElapsedTimeCatcher._max_storage: None or an int
    heap,           \* list objects: id -> None (no object) or Some(list)
    durations,      \* ElapsedTimeCatcher.durations: the id of a list
    caller,         \* the caller's reference to the list it supplied
    initial,        \* contents of the history right after construction
    active,         \* uses entered and not yet left, innermost last
    captured,       \* every ElapsedTime appended by __exit__, in order
    lastUse,        \* the use completed last: None or Some(record)
    kinds,          \* the ways of use completed so far: "with", "call"
    got,            \* outcome of reading ``duration``, if it was the last step
    _measure,       \* ElapsedTimeMeasurer._measure: the name of a counter
    counters,       \* the value each counter of the platform returned last
    steady,         \* whether the counters never run backwards
    made,           \* how the measurer was constructed, and its argument
    launched,       \* the first and the latest launch(): None or Some(record)
    out,            \* outcome of the latest call of the measurer or of an
                    \* operation of ElapsedTime: None or Some(record)
    args,           \* the operands of the ElapsedTime operation
    pc,             \* where each thread that shares the catcher stands
    local           \* what each such thread holds on its stack

\* the catcher and its uses
cvars == <<clock, _max_storage, heap, durations, caller, initial, active,
           captured, lastUse, kinds, got>>

\* the measurer called directly, and the operations of ElapsedTime
mvars == <<_measure, counters, steady, made, launched, out>>

\* the threads that share the catcher
tvars == <<pc, local>>

vars == <<cvars, _start, mvars, args, tvars>>

\* two threads use one catcher
Threads == 1..2

\* a thread outside __enter__ and __exit__ holds nothing
NoLocal == [list |-> 0, r |-> 0, d |-> 0, new |-> 0]

\* the catcher is used by one thread, whose steps are whole calls
NoThreads ==
    /\ pc = [t \in Threads |-> "idle"]
    /\ local = [t \in Threads |-> NoLocal]

\* the list behind catcher.durations and the one behind the caller's name
History == Get(heap[durations])
CallerList == Get(heap[Get(caller)])

\* ------------------------------------------------------------------------
\* ElapsedTimeMeasurer
\* ------------------------------------------------------------------------
\* a counter that returns any value, lower ones too
Readings_Any == 0..MaxClock

\* a launch() that sets no reference point
launch_Nothing(start, r) == start

\* self._measure(): the counter is read; it does not run backwards
Readings == clock..MaxClock

\* a launch() that keeps the reference point of an earlier launch
launch_KeepFirst(start, r) == IF start = None THEN Some(r) ELSE start

\* launch(): self._start = self._measure(), where r is the value read; an
\* earlier value of _start is overwritten
launch(start, r) == Some(r)

\* an elapse() that takes a missing reference point for zero
elapse_FromZero(start, r) ==
    [tag |-> "return",
     value |-> ElapsedTime(r - (IF start = None THEN 0 ELSE Get(start)))]

\* elapse(): ElapsedTime(self._measure() - self._start), or
\* MeasurerNotLaunched when the attribute _start does not exist
elapse(start, r) ==
    IF start = None
    THEN [tag |-> "raise", error |-> "MeasurerNotLaunched"]
    ELSE [tag |-> "return", value |-> ElapsedTime(r - Get(start))]

\* time.perf_counter_ns counts the time asleep, time.process_time_ns does not
Counters == {"perf_counter_ns", "process_time_ns"}

\* the selection turned around
MeasureOf_Swapped(count_sleep) ==
    LET counted == IF count_sleep = None THEN TRUE ELSE Get(count_sleep)
    IN  IF counted THEN "process_time_ns" ELSE "perf_counter_ns"

\* ElapsedTimeMeasurer.__init__: count_sleep None stands for True;
\* perf_counter_ns if count_sleep else process_time_ns
MeasureOf(count_sleep) ==
    LET counted == IF count_sleep = None THEN TRUE ELSE Get(count_sleep)
    IN  IF counted THEN "perf_counter_ns" ELSE "process_time_ns"

\* a catcher that constructs ElapsedTimeMeasurer() without its argument
Forwarded_Dropped(count_sleep) == None

\* ElapsedTimeCatcher.__init__: ElapsedTimeMeasurer(count_sleep), the
\* argument the catcher hands to the measurer it owns
Forwarded(count_sleep) == count_sleep

\* the classes a measurer is constructed by
Makers == {"ElapsedTimeMeasurer", "ElapsedTimeCatcher"}

\* by(count_sleep=count_sleep): the measurer after construction, not launched
MeasurerInit(by, count_sleep) ==
    /\ made = [by |-> by, count_sleep |-> count_sleep]
    /\ _measure = MeasureOf(IF by = "ElapsedTimeCatcher"
                            THEN Forwarded(count_sleep)
                            ELSE count_sleep)
    /\ _start = None
    /\ launched = None
    /\ out = None

\* the measurer of the catcher of Spec, whose readings are those of clock
OwnedMeasurer ==
    /\ MeasurerInit("ElapsedTimeCatcher", None)
    /\ counters = [c \in Counters |-> 0]
    /\ steady = TRUE

\* how many calls of elapse() in a row the next one ends, counted up to 2
Streak ==
    IF out # None /\ Get(out).op = "elapse" THEN 2 ELSE 1

\* the values the counters can return at the next reading
NextCounters ==
    {nc \in [Counters -> 0..MaxClock] :
        steady => \A c \in Counters : nc[c] >= counters[c]}

\* measurer.launch()
Launch ==
    /\ \E nc \in NextCounters :
         LET r == nc[_measure]
         IN  /\ counters' = nc
             /\ _start' = launch(_start, r)
             /\ launched' = Some([first |-> IF launched = None THEN r
                                            ELSE Get(launched).first,
                                  latest |-> r,
                                  counter |-> _measure])
    /\ out' = Some([op |-> "launch", tag |-> "return", counter |-> _measure])
    /\ UNCHANGED <<_measure, steady, made, cvars, args, tvars>>

\* an elapse() that takes its reading for the next reference point
Elapse_Restart ==
    /\ \E nc \in NextCounters :
         LET e == elapse(_start, nc[_measure])
         IN  /\ counters' = nc
             /\ out' = Some([op |-> "elapse", tag |-> e.tag,
                             counter |-> _measure, result |-> e,
                             streak |-> Streak])
             /\ _start' = IF _start = None THEN None ELSE Some(nc[_measure])
    /\ UNCHANGED <<_measure, steady, made, launched, cvars, args, tvars>>

\* an elapse() that uses the reference point up
Elapse_Consume ==
    /\ \E nc \in NextCounters :
         LET e == elapse(_start, nc[_measure])
         IN  /\ counters' = nc
             /\ out' = Some([op |-> "elapse", tag |-> e.tag,
                             counter |-> _measure, result |-> e,
                             streak |-> Streak])
    /\ _start' = None
    /\ UNCHANGED <<_measure, steady, made, launched, cvars, args, tvars>>

\* measurer.elapse(): the counter is read before _start is looked up
Elapse ==
    /\ \E nc \in NextCounters :
         LET e == elapse(_start, nc[_measure])
         IN  /\ counters' = nc
             /\ out' = Some([op |-> "elapse", tag |-> e.tag,
                             counter |-> _measure, result |-> e,
                             streak |-> Streak])
    /\ UNCHANGED <<_start, _measure, steady, made, launched, cvars, args, tvars>>

\* ------------------------------------------------------------------------
\* ElapsedTimeCatcher
\* ------------------------------------------------------------------------
\* ElapsedTimeCatcher(max_storage=max, durations=supplied): the heap and the
\* references after construction
CatcherInit(max, supplied) ==
    /\ _max_storage = max
    /\ _start = None
    /\ heap = [i \in ListIds |->
                 IF i = 1
                 THEN Some(IF supplied # None THEN Get(supplied) ELSE <<>>)
                 ELSE None]
    /\ durations = 1
    /\ caller = IF supplied # None THEN Some(1) ELSE None
    /\ initial = IF supplied # None THEN Get(supplied) ELSE <<>>

\* self.durations.insert(0, d)
ListAppend_Front(h, id, d) == [h EXCEPT ![id] = Some(<<d>> \o Get(@))]

\* self.durations.append(d): the list object is changed in place
ListAppend(h, id, d) == [h EXCEPT ![id] = Some(Append(Get(@), d))]

\* the comparison off by one, either way
OverStorage_Late(max, l) == max # None /\ Len(l) > Get(max) + 1
OverStorage_Early(max, l) == max # None /\ Len(l) >= Get(max)

\* self._max_storage is not None and len(self.durations) > self._max_storage
OverStorage(max, l) == max # None /\ Len(l) > Get(max)

\* self.durations = <new list>: the name is bound to a new list object; the
\* old object stays alive only while the caller still refers to it
Rebind(h, old, cref, l) ==
    LET kept == IF cref = Some(old) THEN h ELSE [h EXCEPT ![old] = None]
        id == CHOOSE i \in ListIds :
                  /\ kept[i] = None
                  /\ \A j \in ListIds : kept[j] = None => i <= j
    IN  [heap |-> [kept EXCEPT ![id] = Some(l)], durations |-> id]

\* the body of __exit__ after elapse() has returned d: the heap and
\* self.durations it leaves
ExitStore(h, dur, cref, max, d) ==
    LET h1 == ListAppend(h, dur, d)
    IN  IF OverStorage(max, Get(h1[dur]))
        THEN Rebind(h1, dur, cref, SliceFrom1(Get(h1[dur])))
        ELSE [heap |-> h1, durations |-> dur]

\* the same on the contents alone: what self.durations holds after one
\* __exit__ that found it holding l
ExitList(max, l, d) ==
    LET l1 == Append(l, d)
    IN  IF OverStorage(max, l1) THEN SliceFrom1(l1) ELSE l1

\* an __exit__ that returns True
ExitReturnsTrue_Swallow == TRUE

\* __exit__ returns None, which is not true: the with statement does not
\* take the body's exception as handled
ExitReturnsTrue == FALSE

\* self.durations[0]
duration_First(l) ==
    IF Len(l) = 0
    THEN [tag |-> "raise", error |-> "NoElapsedTimeCaptured"]
    ELSE [tag |-> "return", value |-> l[1]]

\* the duration property: self.durations[-1], or NoElapsedTimeCaptured on
\* IndexError
duration(l) ==
    IF Len(l) = 0
    THEN [tag |-> "raise", error |-> "NoElapsedTimeCaptured"]
    ELSE [tag |-> "return", value |-> l[Len(l)]]

\* ------------------------------------------------------------------------
\* Operations
\* ------------------------------------------------------------------------
Started == Len(captured) + Len(active)

\* __enter__: self._measurer.launch(); every use that is still open has had
\* the measurer relaunched under it, latest at the reading r
Enter(kind) ==
    /\ Started < MaxUses
    /\ Len(active) < MaxDepth
    /\ \E r \in Readings :
         /\ clock' = r
         /\ _start' = launch(_start, r)
         /\ active' = Append(
                [i \in 1..Len(active) |->
                    [active[i] EXCEPT !.relaunched = TRUE, !.latest = r]],
                [kind |-> kind, entry |-> r, relaunched |-> FALSE,
                 latest |-> r])
    /\ got' = None
    /\ UNCHANGED <<_max_storage, heap, durations, caller, initial, captured,
                   lastUse, kinds>>
    /\ UNCHANGED <<mvars, args, tvars>>

\* the exception that leaves the with statement: the one __exit__ raised,
\* else the body's unless __exit__ returned a true value, else none
Leaves(e, raised) ==
    IF e.tag = "raise" THEN e.error
    ELSE IF raised /\ ~ExitReturnsTrue THEN "BodyError"
    ELSE "none"

\* __exit__(*exc) of the i-th open use, run by a catcher whose
\* _max_storage is max; raised tells whether the body raised an exception
ExitAt(i, kind, raised, max) ==
    /\ i \in 1..Len(active)
    /\ active[i].kind = kind
    /\ \E r \in Readings :
         LET top == active[i]
             e == elapse(_start, r)
             st == IF e.tag = "return"
                   THEN ExitStore(heap, durations, caller, max, e.value)
                   ELSE [heap |-> heap, durations |-> durations]
         IN  /\ clock' = r
             /\ heap' = st.heap
             /\ durations' = st.durations
             /\ captured' = IF e.tag = "return"
                            THEN Append(captured, e.value)
                            ELSE captured
             /\ lastUse' = Some([own |-> r - top.entry,
                                 sinceLatest |-> r - top.latest,
                                 relaunched |-> top.relaunched,
                                 innermost |-> i = Len(active),
                                 before |-> History,
                                 elapsed |-> e,
                                 raised |-> raised,
                                 leaves |-> Leaves(e, raised)])
    /\ active' = SubSeq(active, 1, i - 1) \o SubSeq(active, i + 1, Len(active))
    /\ kinds' = kinds \cup {IF kind \in Functions THEN "call" ELSE kind}
    /\ got' = None
    /\ UNCHANGED <<_start, _max_storage, caller, initial>>
    /\ UNCHANGED <<mvars, args, tvars>>

\* __exit__(*exc) of the innermost open use: with blocks and calls nest
ExitWith(kind, raised, max) == ExitAt(Len(active), kind, raised, max)

Exit(kind, raised) == ExitWith(kind, raised, _max_storage)

\* with catcher: ...
ScopeEnter == Enter("with")

ScopeExit == \E raised \in BOOLEAN : Exit("with", raised)

\* a call of a function decorated with the catcher: ContextDecorator runs
\* the function inside ``with self``
CallEnter == \E fn \in Functions : Enter(fn)

\* a decorator that records the call without the catcher's limit
CallExit_NoLimit ==
    \E fn \in Functions, raised \in BOOLEAN : ExitWith(fn, raised, None)

CallExit == \E fn \in Functions, raised \in BOOLEAN : Exit(fn, raised)

\* catcher.duration
ReadDuration ==
    /\ got' = Some(duration(History))
    /\ UNCHANGED <<clock, _start, _max_storage, heap, durations, caller,
                   initial, active, captured, lastUse, kinds>>
    /\ UNCHANGED <<mvars, args, tvars>>

Init ==
    /\ clock = 0
    /\ active = <<>>
    /\ captured = <<>>
    /\ lastUse = None
    /\ kinds = {}
    /\ got = None
    /\ OwnedMeasurer
    /\ args = None
    /\ NoThreads
    /\ \E max \in {None} \cup {Some(m) : m \in -1..MaxStorage},
          supplied \in {None} \cup {Some(SuppliedList(n)) : n \in 0..MaxSupplied} :
         CatcherInit(max, supplied)

Next ==
    \/ ScopeEnter
    \/ ScopeExit
    \/ CallEnter
    \/ CallExit
    \/ ReadDuration

Spec == Init /\ [][Next]_vars

\* __exit__ of a use that is not the innermost one: two threads in with
\* blocks of one catcher leave them in the order they like
ExitOuter ==
    \E i \in 1..(Len(active) - 1), raised \in BOOLEAN :
        ExitAt(i, active[i].kind, raised, _max_storage)

\* a catcher with no limit and a list of its own
InitOverlap ==
    /\ clock = 0
    /\ active = <<>>
    /\ captured = <<>>
    /\ lastUse = None
    /\ kinds = {}
    /\ got = None
    /\ OwnedMeasurer
    /\ args = None
    /\ NoThreads
    /\ CatcherInit(None, None)

NextOverlap ==
    \/ Next
    \/ ExitOuter

SpecOverlap == InitOverlap /\ [][NextOverlap]_vars

\* ------------------------------------------------------------------------
\* Two threads in with blocks of one catcher
\* ------------------------------------------------------------------------
\* the list objects there is room for while threads hold references
ThreadListIds == 1..6

\* the list objects referred to by the catcher, the caller or a thread
Referred(dur, cref, loc) ==
    ({dur} \cup (IF cref # None THEN {Get(cref)} ELSE {})
           \cup {loc[t].list : t \in Threads}
           \cup {loc[t].new : t \in Threads}) \ {0}

\* reference counting: a list object nothing refers to is gone
Collect(h, dur, cref, loc) ==
    [i \in ThreadListIds |->
        IF i \in Referred(dur, cref, loc) THEN h[i] ELSE None]

\* a new list object
NewList(h) ==
    CHOOSE i \in ThreadListIds :
        /\ h[i] = None
        /\ \A j \in ThreadListIds : h[j] = None => i <= j

\* uses begun: those recorded and those of threads on their way to append
ThreadsStarted ==
    Len(captured)
    + Cardinality({t \in Threads :
          pc[t] \in {"launch", "body", "append_loaded", "elapse_read",
                     "elapsed"}})

\* thread t moves on to the position to, holding loc
Goes(t, to, loc) ==
    /\ pc' = [pc EXCEPT ![t] = to]
    /\ local' = [local EXCEPT ![t] = loc]

\* __enter__, launch(): self._measure() is called
ThreadLaunchRead(t) ==
    /\ pc[t] = "idle"
    /\ ThreadsStarted < MaxUses
    /\ \E r \in Readings :
         /\ clock' = r
         /\ Goes(t, "launch", [local[t] EXCEPT !.r = r])
    /\ UNCHANGED <<_start, _max_storage, heap, durations, caller, initial,
                   active, captured, lastUse, kinds, got, mvars, args>>

\* __enter__, launch(): self._start = <the value read>; the body begins
ThreadLaunchStore(t) ==
    /\ pc[t] = "launch"
    /\ _start' = launch(_start, local[t].r)
    /\ Goes(t, "body", NoLocal)
    /\ UNCHANGED <<cvars, mvars, args>>

\* __exit__: self.durations.append is looked up, which takes the list
\* object behind self.durations before the argument is evaluated
ThreadAppendLoad(t) ==
    /\ pc[t] = "body"
    /\ Goes(t, "append_loaded", [local[t] EXCEPT !.list = durations])
    /\ UNCHANGED <<cvars, _start, mvars, args>>

\* __exit__, elapse(): self._measure() is called
ThreadElapseRead(t) ==
    /\ pc[t] = "append_loaded"
    /\ \E r \in Readings :
         /\ clock' = r
         /\ Goes(t, "elapse_read", [local[t] EXCEPT !.r = r])
    /\ UNCHANGED <<_start, _max_storage, heap, durations, caller, initial,
                   active, captured, lastUse, kinds, got, mvars, args>>

\* __exit__, elapse(): ElapsedTime(<the value read> - self._start), or
\* MeasurerNotLaunched, which ends __exit__
ThreadElapseSubtract(t) ==
    /\ pc[t] = "elapse_read"
    /\ LET e == elapse(_start, local[t].r)
       IN  IF e.tag = "return"
           THEN /\ Goes(t, "elapsed",
                        [local[t] EXCEPT !.r = 0, !.d = e.value.nanoseconds])
                /\ heap' = heap
           ELSE /\ Goes(t, "idle", NoLocal)
                /\ heap' = Collect(heap, durations, caller,
                                   [local EXCEPT ![t] = NoLocal])
    /\ UNCHANGED <<clock, _start, _max_storage, durations, caller, initial,
                   active, captured, lastUse, kinds, got, mvars, args>>

\* __exit__: append(<the duration>) on the list object taken before
ThreadAppend(t) ==
    /\ pc[t] = "elapsed"
    /\ LET d == ElapsedTime(local[t].d)
           h1 == ListAppend(heap, local[t].list, d)
       IN  /\ captured' = Append(captured, d)
           /\ heap' = Collect(h1, durations, caller,
                              [local EXCEPT ![t] = NoLocal])
    /\ Goes(t, "appended", NoLocal)
    /\ UNCHANGED <<clock, _start, _max_storage, durations, caller, initial,
                   active, lastUse, kinds, got, mvars, args>>

\* __exit__: self._max_storage is not None and ..., and self.durations is
\* read for len()
ThreadCheckLoad(t) ==
    /\ pc[t] = "appended"
    /\ IF _max_storage = None
       THEN Goes(t, "idle", NoLocal)
       ELSE Goes(t, "check_loaded", [local[t] EXCEPT !.list = durations])
    /\ UNCHANGED <<cvars, _start, mvars, args>>

\* __exit__: len(<the list read>) > self._max_storage
ThreadCheckLen(t) ==
    /\ pc[t] = "check_loaded"
    /\ IF OverStorage(_max_storage, Get(heap[local[t].list]))
       THEN Goes(t, "over", NoLocal)
       ELSE Goes(t, "idle", NoLocal)
    /\ heap' = Collect(heap, durations, caller, [local EXCEPT ![t] = NoLocal])
    /\ UNCHANGED <<clock, _start, _max_storage, durations, caller, initial,
                   active, captured, lastUse, kinds, got, mvars, args>>

\* __exit__: self.durations is read for the slice
ThreadSliceLoad(t) ==
    /\ pc[t] = "over"
    /\ Goes(t, "slice_loaded", [local[t] EXCEPT !.list = durations])
    /\ UNCHANGED <<cvars, _start, mvars, args>>

\* __exit__: <the list read>[1:] makes a new list object
ThreadSlice(t) ==
    /\ pc[t] = "slice_loaded"
    /\ LET id == NewList(heap)
           loc == [local[t] EXCEPT !.list = 0, !.new = id]
           h1 == [heap EXCEPT ![id] = Some(SliceFrom1(Get(heap[local[t].list])))]
       IN  /\ Goes(t, "sliced", loc)
           /\ heap' = Collect(h1, durations, caller,
                              [local EXCEPT ![t] = loc])
    /\ UNCHANGED <<clock, _start, _max_storage, durations, caller, initial,
                   active, captured, lastUse, kinds, got, mvars, args>>

\* __exit__: self.durations = <the new list>
ThreadStore(t) ==
    /\ pc[t] = "sliced"
    /\ durations' = local[t].new
    /\ Goes(t, "idle", NoLocal)
    /\ heap' = Collect(heap, local[t].new, caller,
                       [local EXCEPT ![t] = NoLocal])
    /\ UNCHANGED <<clock, _start, _max_storage, caller, initial, active,
                   captured, lastUse, kinds, got, mvars, args>>

\* a catcher with a maximum size and a list of its own
InitThreads ==
    /\ clock = 0
    /\ active = <<>>
    /\ captured = <<>>
    /\ lastUse = None
    /\ kinds = {}
    /\ got = None
    /\ OwnedMeasurer
    /\ args = None
    /\ NoThreads
    /\ durations = 1
    /\ caller = None
    /\ initial = <<>>
    /\ heap = [i \in ThreadListIds |-> IF i = 1 THEN Some(<<>>) ELSE None]
    /\ \E max \in {Some(m) : m \in -1..MaxStorage} : _max_storage = max

NextThreads ==
    \E t \in Threads :
        \/ ThreadLaunchRead(t)
        \/ ThreadLaunchStore(t)
        \/ ThreadAppendLoad(t)
        \/ ThreadElapseRead(t)
        \/ ThreadElapseSubtract(t)
        \/ ThreadAppend(t)
        \/ ThreadCheckLoad(t)
        \/ ThreadCheckLen(t)
        \/ ThreadSliceLoad(t)
        \/ ThreadSlice(t)
        \/ ThreadStore(t)

SpecThreads == InitThreads /\ [][NextThreads]_vars

\* no catcher is in use
NoCatcher ==
    /\ clock = 0
    /\ _max_storage = None
    /\ heap = [i \in ListIds |-> None]
    /\ durations = 1
    /\ caller = None
    /\ initial = <<>>
    /\ active = <<>>
    /\ captured = <<>>
    /\ lastUse = None
    /\ kinds = {}
    /\ got = None

\* a measurer constructed directly or by a catcher, with count_sleep
\* omitted, True or False, on counters that are steady or not
InitMeasurer ==
    /\ NoCatcher
    /\ args = None
    /\ NoThreads
    /\ counters = [c \in Counters |-> 0]
    /\ steady \in BOOLEAN
    /\ \E by \in Makers, count_sleep \in {None, Some(TRUE), Some(FALSE)} :
         MeasurerInit(by, count_sleep)

NextMeasurer ==
    \/ Launch
    \/ Elapse

SpecMeasurer == InitMeasurer /\ [][NextMeasurer]_vars

\* ------------------------------------------------------------------------
\* ElapsedTime
\* ------------------------------------------------------------------------
\* s == t for tuples
TupleEq(s, t) ==
    /\ Len(s) = Len(t)
    /\ \A i \in 1..Len(s) : s[i] = t[i]

\* a comparison of tuples that lets equal tuples through
TupleLt_OrEqual(s, t) ==
    \/ \E i \in 1..Min(Len(s), Len(t)) :
          /\ \A j \in 1..(i - 1) : s[j] = t[j]
          /\ s[i] < t[i]
    \/ /\ Len(s) <= Len(t)
       /\ \A j \in 1..Len(s) : s[j] = t[j]

\* s < t for tuples: the first items that differ decide, else the lengths
TupleLt(s, t) ==
    \/ \E i \in 1..Min(Len(s), Len(t)) :
          /\ \A j \in 1..(i - 1) : s[j] = t[j]
          /\ s[i] < t[i]
    \/ /\ Len(s) < Len(t)
       /\ \A j \in 1..Len(s) : s[j] = t[j]

\* the fields @dataclass(eq=True, order=True) compares, as a tuple
Fields(x) == <<x.nanoseconds>>

\* __eq__ and __lt__ as @dataclass generates them
ElapsedTimeEq(x, y) == TupleEq(Fields(x), Fields(y))
ElapsedTimeLt(x, y) == TupleLt(Fields(x), Fields(y))

\* int(1e9)
NsPerSecond == 1000000000

\* A count of nanoseconds to render is held as the pair of s and ns that
\* stands for s * int(1e9) + ns with 0 <= ns < int(1e9), because a day of
\* nanoseconds is more than the integers of the checker hold.
BigCount(s, ns) == [s |-> s, ns |-> ns]

\* self.nanoseconds // int(1e9) and self.nanoseconds % int(1e9)
FloorDivSecond(n) == n.s
ModSecond(n) == n.ns

\* the decimal digits of n >= 0, as characters
DigitChar(d) == <<"0", "1", "2", "3", "4", "5", "6", "7", "8", "9">>[d + 1]

RECURSIVE Digits(_)
Digits(n) ==
    IF n < 10 THEN <<DigitChar(n)>>
    ELSE Append(Digits(n \div 10), DigitChar(n % 10))

\* n formatted with 0w: zeros in front up to the width w
RECURSIVE ZeroPad(_, _)
ZeroPad(t, w) == IF Len(t) >= w THEN t ELSE ZeroPad(<<"0">> \o t, w)

\* timedelta(seconds=s) for s >= 0 keeps days and seconds below a day
SecondsPerDay == 24 * 60 * 60

\* "s" unless the number is 1
Plural(n) == IF n # 1 THEN <<"s">> ELSE <<>>

\* str(timedelta(seconds=s)): "%d:%02d:%02d" of the seconds below a day,
\* after "%d day%s, " when there are days
TimedeltaStr(s) ==
    LET days == s \div SecondsPerDay
        secs == s % SecondsPerDay
        hh == secs \div 3600
        mm == (secs \div 60) % 60
        ss == secs % 60
        hms == Digits(hh) \o <<":">> \o ZeroPad(Digits(mm), 2)
                   \o <<":">> \o ZeroPad(Digits(ss), 2)
    IN  IF days # 0
        THEN Digits(days) \o <<" ", "d", "a", "y">> \o Plural(days)
                 \o <<",", " ">> \o hms
        ELSE hms

\* a __str__ with the fraction formatted as microseconds are, 06
ElapsedTimeStr_Width6(n) ==
    LET integer_part == TimedeltaStr(FloorDivSecond(n))
        decimal_part == ModSecond(n)
    IN  IF decimal_part = 0
        THEN integer_part
        ELSE integer_part \o <<".">> \o ZeroPad(Digits(decimal_part), 6)

\* a __str__ that prints the seconds as one number
ElapsedTimeStr_Seconds(n) ==
    LET decimal_part == ModSecond(n)
    IN  IF decimal_part = 0
        THEN Digits(FloorDivSecond(n))
        ELSE Digits(FloorDivSecond(n)) \o <<".">>
                 \o ZeroPad(Digits(decimal_part), 9)

\* ElapsedTime.__str__
ElapsedTimeStr(n) ==
    LET integer_part == TimedeltaStr(FloorDivSecond(n))
        decimal_part == ModSecond(n)
    IN  IF decimal_part = 0
        THEN integer_part
        ELSE integer_part \o <<".">> \o ZeroPad(Digits(decimal_part), 9)

\* the counts compared: the differences of two readings
CompareInputs == (0 - MaxClock)..MaxClock

\* the counts rendered: around the minute, the hour and the day, with
\* fractions of few and of nine digits
SecondInputs ==
    {d * SecondsPerDay + k :
        d \in 0..MaxDays, k \in {0, 1, 59, 60, 3599, 3600, 86399}}

FractionInputs ==
    {ns \in {0, 1, 10, 1500, 100000000, 123456789, 999999999} :
        ns < NsPerSecond}

\* ElapsedTime(a) == ElapsedTime(b), ElapsedTime(a) < ElapsedTime(b) and
\* ElapsedTime(a) > ElapsedTime(b), which @dataclass makes b < a
Compare ==
    /\ args # None
    /\ Get(args).op = "compare"
    /\ LET x == ElapsedTime(Get(args).a)
           y == ElapsedTime(Get(args).b)
       IN  out' = Some([op |-> "compare",
                        eq |-> ElapsedTimeEq(x, y),
                        lt |-> ElapsedTimeLt(x, y),
                        gt |-> ElapsedTimeLt(y, x)])
    /\ UNCHANGED <<cvars, _start, _measure, counters, steady, made, launched,
                   args, tvars>>

\* str(ElapsedTime(n))
Str ==
    /\ args # None
    /\ Get(args).op = "str"
    /\ out' = Some([op |-> "str", text |-> ElapsedTimeStr(Get(args).n)])
    /\ UNCHANGED <<cvars, _start, _measure, counters, steady, made, launched,
                   args, tvars>>

\* one operation of ElapsedTime on given counts
InitTime ==
    /\ NoCatcher
    /\ NoThreads
    /\ OwnedMeasurer
    /\ args \in {Some([op |-> "compare", a |-> a, b |-> b]) :
                     a \in CompareInputs, b \in CompareInputs}
           \cup {Some([op |-> "str", n |-> BigCount(s, ns)]) :
                     s \in SecondInputs, ns \in FractionInputs}

NextTime ==
    \/ Compare
    \/ Str

SpecTime == InitTime /\ [][NextTime]_vars

\* ------------------------------------------------------------------------
\* Properties
\* ------------------------------------------------------------------------

\* the last n entries of l, in the order of l
LastN(l, n) == SubSeq(l, Len(l) - n + 1, Len(l))

Completed == Len(captured)

Last == Get(lastUse)

\* a maximum size is configured and it is a size
HasMax == _max_storage # None /\ Get(_max_storage) >= 0

\* C1: a catcher with a non-negative max_storage m and a list of its own
\* never holds more than m durations between operations.
C1_BoundedHistory ==
    (caller = None /\ HasMax) => Len(History) <= Get(_max_storage)

C1_Witness ==
    /\ caller = None
    /\ _max_storage = Some(1)
    /\ Completed >= 2
    /\ Len(History) = 1

\* C2: a catcher that starts with an empty history and has max_storage m
\* holds, after k completed uses, exactly the last min(k, m) captured
\* durations in the order of capture.
C2_LastCaptured ==
    (initial = <<>> /\ HasMax) =>
        History = LastN(captured, Min(Completed, Get(_max_storage)))

C2_Witness ==
    /\ initial = <<>>
    /\ _max_storage = Some(2)
    /\ Completed = 3
    /\ captured[1] # captured[2]
    /\ captured[2] # captured[3]
    /\ History = <<captured[2], captured[3]>>

\* C3: after an exit of a catcher with max_storage m, whatever the length
\* of the history was before, the history holds at most m entries: those of
\* the history before and the new one, less exactly the oldest excess.
C3_TrimUntilFits ==
    (lastUse # None /\ HasMax /\ Last.elapsed.tag = "return") =>
        LET all == Append(Last.before, Last.elapsed.value)
        IN  /\ Len(History) <= Get(_max_storage)
            /\ History = LastN(all, Min(Len(all), Get(_max_storage)))

\* C4: a catcher constructed with the caller's list keeps that very list:
\* catcher.durations and the caller's reference are the same object.
C4_SameContainer ==
    caller # None => (durations = Get(caller) /\ History = CallerList)

\* C5: a use during which the measurer is not launched again records the
\* reading at its exit minus the reading at its own entry (Last.own).
C5_OwnReadings ==
    (lastUse # None /\ ~Last.relaunched) =>
        /\ Last.elapsed.tag = "return"
        /\ Last.elapsed.value = ElapsedTime(Last.own)
        /\ captured[Completed] = ElapsedTime(Last.own)

C5_Witness ==
    /\ lastUse # None
    /\ ~Last.relaunched
    /\ Completed = 2
    /\ captured[1] = ElapsedTime(1)
    /\ clock = 2
    /\ Last.own = 1
    /\ captured[2] = ElapsedTime(1)

\* C6: when the body of a use raises, the exit still records the elapsed
\* time and trims the history as after a body that returned, and the body's
\* exception leaves the with statement.
C6_ErrorPath ==
    (lastUse # None /\ Last.raised) =>
        /\ Last.leaves = "BodyError"
        /\ Last.elapsed.tag = "return"
        /\ captured[Completed] = Last.elapsed.value
        /\ History = ExitList(_max_storage, Last.before, Last.elapsed.value)

C6_Witness ==
    /\ lastUse # None
    /\ Last.raised
    /\ kinds = {"call"}
    /\ Last.leaves = "BodyError"
    /\ _max_storage = Some(1)
    /\ Completed = 2
    /\ History = <<captured[2]>>

\* what the history holds after one scoped use per entry of ds, in order,
\* starting from the contents l
RECURSIVE ScopedRun(_, _)
ScopedRun(l, ds) ==
    IF ds = <<>> THEN l
    ELSE ScopedRun(ExitList(_max_storage, l, Head(ds)), Tail(ds))

\* C7: whatever mix of with blocks and calls of decorated functions the
\* uses are, the history is the one that as many with blocks capturing the
\* same durations leave.
C7_WrapEqualsScope == History = ScopedRun(initial, captured)

C7_Witness ==
    /\ kinds = {"with", "call"}
    /\ Completed = 3
    /\ _max_storage = Some(2)
    /\ Len(History) = 2
    /\ History = ScopedRun(initial, captured)

\* no maximum size and a list of the catcher's own
Unlimited == _max_storage = None /\ caller = None

\* C8: with no max_storage and no supplied list the history starts empty,
\* every exit adds its duration at the end and nothing else changes the
\* list: the history is the captured durations in order.
C8_AppendOnly ==
    /\ [](Unlimited => History = captured)
    /\ [][Unlimited =>
            /\ durations' = durations
            /\ IF captured' # captured
               THEN History' = Append(History, captured'[Len(captured')])
               ELSE History' = History]_vars

C8_Witness ==
    /\ Unlimited
    /\ Completed = 3
    /\ captured[1] # captured[2]
    /\ History = captured

\* C9: reading ``duration`` returns the last entry of a non-empty history
\* and raises NoElapsedTimeCaptured exactly on an empty one; the read leaves
\* the history and the measurer as they were.
C9_DurationRead ==
    [][got' # None =>
         /\ UNCHANGED <<heap, durations, _start, clock, captured>>
         /\ IF History = <<>>
            THEN /\ Get(got').tag = "raise"
                 /\ Get(got').error = "NoElapsedTimeCaptured"
            ELSE /\ Get(got').tag = "return"
                 /\ Get(got').value = History[Len(History)]]_vars

C9_Witness ==
    /\ got # None
    /\ Get(got).tag = "return"
    /\ Completed >= 1
    /\ Len(History) >= 2
    /\ History[1] # History[Len(History)]
    /\ Get(got).value = History[Len(History)]

\* the read of ``duration`` returned the duration of the last completed use
GotLast ==
    /\ Get(got).tag = "return"
    /\ Get(got).value = Last.elapsed.value

\* C10 as stated: after one completed use ``duration`` returns the duration
\* of the last completed use, whatever max_storage is.
C10_AnyMax == (lastUse # None /\ got # None) => GotLast

\* C10: after one completed use ``duration`` returns the duration of the
\* last completed use, when max_storage is None or at least 1.
C10_MaxAtLeastOne ==
    (lastUse # None /\ got # None
       /\ (_max_storage = None \/ Get(_max_storage) >= 1)) => GotLast

C10_Witness ==
    /\ lastUse # None
    /\ got # None
    /\ _max_storage = Some(1)
    /\ Completed = 2
    /\ captured[1] # captured[2]
    /\ GotLast

\* the outcome of the latest call of the measurer
Out == Get(out)

\* the reading the latest call of the measurer took
Now == counters[_measure]

\* C11: elapse() on a measurer that was never launched raises
\* MeasurerNotLaunched and leaves the measurer not launched.
C11_UnlaunchedElapse ==
    [][(launched = None /\ out' # None /\ Get(out').op = "elapse") =>
         /\ Get(out').tag = "raise"
         /\ Get(out').result.error = "MeasurerNotLaunched"
         /\ _start = None
         /\ _start' = None
         /\ launched' = None]_vars

C11_Witness ==
    /\ launched = None
    /\ out # None
    /\ Out.op = "elapse"
    /\ Out.streak = 2
    /\ Out.tag = "raise"
    /\ Out.result.error = "MeasurerNotLaunched"
    /\ _start = None

\* C12: elapse() on a launched measurer returns the reading it takes minus
\* the reading of the latest launch(), be the difference positive, zero or
\* negative, and leaves the reference point as it was, also when the call
\* before was an elapse().
C12_ElapseKeepsReference ==
    [][(launched # None /\ out' # None /\ Get(out').op = "elapse") =>
         /\ Get(out').tag = "return"
         /\ Get(out').result.value =
                ElapsedTime(counters'[_measure] - Get(launched).latest)
         /\ _start' = _start
         /\ launched' = launched]_vars

C12_Witness ==
    /\ launched # None
    /\ out # None
    /\ Out.op = "elapse"
    /\ Out.streak = 2
    /\ Out.tag = "return"
    /\ Out.result.value.nanoseconds < 0
    /\ Out.result.value = ElapsedTime(Now - Get(launched).latest)

\* C13: launch() succeeds whether the measurer was launched before or not
\* and makes the reading it takes the reference point; an elapse() after
\* several launches measures from the latest of them.
C13_LaunchResets ==
    /\ [][(out' # None /\ Get(out').op = "launch") =>
            /\ Get(out').tag = "return"
            /\ _start' = Some(counters'[_measure])
            /\ Get(launched').latest = counters'[_measure]]_vars
    /\ []((out # None /\ Out.op = "elapse" /\ launched # None) =>
            /\ Out.tag = "return"
            /\ Out.result.value.nanoseconds = Now - Get(launched).latest)

C13_Witness ==
    /\ launched # None
    /\ Get(launched).first # Get(launched).latest
    /\ out # None
    /\ Out.op = "elapse"
    /\ Out.tag = "return"
    /\ Out.result.value.nanoseconds = Now - Get(launched).latest
    /\ Out.result.value.nanoseconds # Now - Get(launched).first

\* the counter the argument count_sleep asks for
Chosen ==
    IF made.count_sleep = Some(FALSE)
    THEN "process_time_ns"
    ELSE "perf_counter_ns"

\* C14: count_sleep omitted or True makes the measurer read
\* perf_counter_ns, False process_time_ns, also when the measurer is the
\* one a catcher constructs; every launch() and elapse() reads that counter.
C14_ClockFixed ==
    /\ _measure = Chosen
    /\ launched # None => Get(launched).counter = Chosen
    /\ out # None => Out.counter = Chosen

C14_Witness ==
    /\ made = [by |-> "ElapsedTimeCatcher", count_sleep |-> Some(FALSE)]
    /\ _measure = "process_time_ns"
    /\ launched # None
    /\ Get(launched).counter = "process_time_ns"
    /\ out # None
    /\ Out.op = "elapse"
    /\ Out.tag = "return"
    /\ Out.counter = "process_time_ns"
    /\ counters["perf_counter_ns"] # counters["process_time_ns"]

\* the operands of the operation of ElapsedTime
Args == Get(args)

IsDigit(c) == c \in {DigitChar(d) : d \in 0..9}

DigitValue(c) == CHOOSE d \in 0..9 : DigitChar(d) = c

\* the number a sequence of digits writes
RECURSIVE Value(_)
Value(t) ==
    IF t = <<>> THEN 0
    ELSE Value(SubSeq(t, 1, Len(t) - 1)) * 10 + DigitValue(t[Len(t)])

IsNumber(t) == t # <<>> /\ \A i \in 1..Len(t) : IsDigit(t[i])

\* the places of the character c in the text t
Places(t, c) == {i \in 1..Len(t) : t[i] = c}

\* the text before the first "." of t, all of t when there is none
IntegerPart(t) ==
    IF Places(t, ".") = {} THEN t
    ELSE SubSeq(t, 1, (CHOOSE i \in Places(t, ".") :
                           \A j \in Places(t, ".") : i <= j) - 1)

\* t is H:MM:SS and writes v seconds: hours, two digits of minutes, two
\* digits of seconds, and nothing else
IsHMS(t, v) ==
    /\ Len(t) >= 7
    /\ t[Len(t) - 2] = ":"
    /\ t[Len(t) - 5] = ":"
    /\ LET hh == SubSeq(t, 1, Len(t) - 6)
           mm == SubSeq(t, Len(t) - 4, Len(t) - 3)
           ss == SubSeq(t, Len(t) - 1, Len(t))
       IN  /\ IsNumber(hh)
           /\ IsNumber(mm)
           /\ IsNumber(ss)
           /\ Value(mm) < 60
           /\ Value(ss) < 60
           /\ Value(hh) * 3600 + Value(mm) * 60 + Value(ss) = v

\* C15: ElapsedTime(a) == ElapsedTime(b) exactly when a = b and
\* ElapsedTime(a) < ElapsedTime(b) exactly when a < b, for negative counts
\* too, so that of two values one is less or they are equal.
C15_OrderByCount ==
    (out # None /\ Out.op = "compare") =>
        /\ Out.eq <=> Args.a = Args.b
        /\ Out.lt <=> Args.a < Args.b
        /\ Out.gt <=> Args.b < Args.a
        /\ Out.lt \/ Out.eq \/ Out.gt

C15_Witness ==
    /\ out # None
    /\ Out.op = "compare"
    /\ Args.a = 0 - 1
    /\ Args.b = 1
    /\ Out.lt
    /\ ~Out.eq
    /\ ~Out.gt

\* C16: the rendering of n >= 0 nanoseconds has a fraction exactly when
\* n mod 1e9 is not zero: then it ends with "." and the nine digits that
\* write n mod 1e9; otherwise it is the rendering of the seconds alone.
C16_Fraction ==
    (out # None /\ Out.op = "str") =>
        LET t == Out.text
            r == Args.n.ns
        IN  IF r # 0
            THEN /\ Len(t) > 10
                 /\ Places(t, ".") = {Len(t) - 9}
                 /\ IsNumber(SubSeq(t, Len(t) - 8, Len(t)))
                 /\ Value(SubSeq(t, Len(t) - 8, Len(t))) = r
                 /\ IntegerPart(t) = TimedeltaStr(Args.n.s)
            ELSE /\ Places(t, ".") = {}
                 /\ t = TimedeltaStr(Args.n.s)

C16_Witness ==
    /\ out # None
    /\ Out.op = "str"
    /\ Args.n = BigCount(1, 1500)
    /\ Out.text = <<"0", ":", "0", "0", ":", "0", "1", ".",
                    "0", "0", "0", "0", "0", "1", "5", "0", "0">>

\* C17 as stated: the seconds of every n >= 0 are rendered as H:MM:SS,
\* from 24 hours on too.
C17_AlwaysHMS ==
    (out # None /\ Out.op = "str") => IsHMS(IntegerPart(Out.text), Args.n.s)

\* C17: the seconds of n >= 0 are rendered as H:MM:SS below 24 hours; from
\* 24 hours on the rendering is "D day, " or "D days, " for the whole days
\* and then H:MM:SS for the seconds left over.
C17_HMSBelowADay ==
    (out # None /\ Out.op = "str") =>
        LET t == IntegerPart(Out.text)
            days == Args.n.s \div SecondsPerDay
            left == Args.n.s % SecondsPerDay
            head == Digits(days) \o <<" ", "d", "a", "y">>
                        \o (IF days = 1 THEN <<>> ELSE <<"s">>)
                        \o <<",", " ">>
        IN  IF days = 0
            THEN IsHMS(t, Args.n.s)
            ELSE /\ Len(t) > Len(head)
                 /\ SubSeq(t, 1, Len(head)) = head
                 /\ IsHMS(SubSeq(t, Len(head) + 1, Len(t)), left)

C17_Witness ==
    /\ out # None
    /\ Out.op = "str"
    /\ Args.n = BigCount(SecondsPerDay + 3600, 0)
    /\ Out.text = <<"1", " ", "d", "a", "y", ",", " ",
                    "1", ":", "0", "0", ":", "0", "0">>

\* C18: whenever a use is open the measurer has been launched, so that no
\* exit of a with block or of a decorated call, nested or not, fails with
\* MeasurerNotLaunched.
C18_LaunchedAtExit ==
    /\ active # <<>> => _start # None
    /\ lastUse # None =>
         /\ Last.elapsed.tag = "return"
         /\ Last.leaves # "MeasurerNotLaunched"

C18_Witness ==
    /\ lastUse # None
    /\ Last.relaunched
    /\ Last.elapsed.tag = "return"
    /\ Last.leaves = "none"
    /\ active = <<>>
    /\ Completed = 3

\* C19: a use during which another use of the same catcher was entered
\* records the time since the latest such entry, not since its own entry,
\* whichever of the two is left first.
C19_OverlapCorrupts ==
    (lastUse # None /\ Last.relaunched) =>
        /\ Last.elapsed.tag = "return"
        /\ Last.elapsed.value = ElapsedTime(Last.sinceLatest)
        /\ Last.sinceLatest # Last.own =>
               Last.elapsed.value # ElapsedTime(Last.own)

C19_Witness ==
    /\ lastUse # None
    /\ Last.relaunched
    /\ ~Last.innermost
    /\ Last.own = 2
    /\ Last.sinceLatest = 1
    /\ Last.elapsed.value = ElapsedTime(1)

\* C20: as the counter does not run backwards, every duration elapse()
\* returns, and so every entry the catcher appends, is not negative, and an
\* elapse() with no launch() since the elapse() before it (the exit of a
\* use after the exit of a use nested in it) returns no less than that one.
C20_NonNegative ==
    /\ [](/\ \A i \in 1..Len(captured) : captured[i].nanoseconds >= 0
          /\ \A i \in 1..Len(History) : History[i].nanoseconds >= 0)
    /\ [][(captured' # captured /\ Get(lastUse').relaunched) =>
            /\ lastUse # None
            /\ Get(lastUse').elapsed.value.nanoseconds
                   >= Last.elapsed.value.nanoseconds]_vars

C20_Witness ==
    /\ lastUse # None
    /\ Last.relaunched
    /\ Completed = 2
    /\ captured = <<ElapsedTime(1), ElapsedTime(2)>>
    /\ History = captured

\* C21: the measurer is not launched (_start unset) exactly until its first
\* launch(); only launch() takes it out of that state, no launch() or
\* elapse() takes it back, and every elapse() from then on returns.
C21_LaunchedForGood ==
    /\ [](/\ _start = None <=> launched = None
          /\ _start \in {None} \cup {Some(r) : r \in 0..MaxClock})
    /\ [][/\ _start # None => _start' # None
          /\ (_start = None /\ _start' # None) => Get(out').op = "launch"
          /\ (_start # None /\ out' # out /\ Get(out').op = "elapse") =>
                 Get(out').tag = "return"]_vars

C21_Witness ==
    /\ launched # None
    /\ Get(launched).first # Get(launched).latest
    /\ _start = Some(Get(launched).latest)
    /\ out # None
    /\ Out.op = "elapse"
    /\ Out.streak = 2
    /\ Out.tag = "return"

\* s holds entries of t in the order they have in t
RECURSIVE IsSubsequence(_, _)
IsSubsequence(s, t) ==
    IF s = <<>> THEN TRUE
    ELSE IF t = <<>> THEN FALSE
    ELSE IF s[1] = t[1] THEN IsSubsequence(Tail(s), Tail(t))
    ELSE IsSubsequence(s, Tail(t))

\* s is the end of t
IsSuffix(s, t) == Len(s) <= Len(t) /\ s = LastN(t, Len(s))

\* every thread is outside __enter__ and __exit__
AllIdle == \A t \in Threads : pc[t] = "idle"

\* C22 as stated: when the exits of two threads have interleaved and
\* finished, a catcher whose history began within its maximum holds the
\* initial entries and the captured durations less the oldest ones, and
\* no more of them than the maximum.
C22_InterleavedExits ==
    (AllIdle /\ HasMax /\ Len(initial) <= Get(_max_storage)) =>
        /\ IsSuffix(History, initial \o captured)
        /\ Len(History) <= Get(_max_storage)

\* C22 as amended: however the steps of the exits of two threads
\* interleave, the history holds nothing but initial entries and captured
\* durations, in the order of capture.
C22_CaptureOrder ==
    IsSubsequence(History, initial \o captured)

C22_Witness ==
    /\ AllIdle
    /\ _max_storage = Some(1)
    /\ Completed = 3
    /\ Len(History) = 1
    /\ History[1] # captured[3]
    /\ ~IsSuffix(History, initial \o captured)
    /\ IsSubsequence(History, initial \o captured)

====
